---- MODULE Spec2Model ----
(***************************************************************************)
(* A model of the bufpool repository: the recycling byte-buffer pool of    *)
(* the bufpool crate (BufPool / Buf) and of the bufpool-fixed crate        *)
(* (FixedBufPool / FixedBuf).                                              *)
(*                                                                         *)
(*   Spec       the growable Buf facade over one BufPool, one thread, with *)
(*              the bytes of every block.                                  *)
(*   SpecFixed  the FixedBuf facade over one FixedBufPool, one thread,     *)
(*              with the bytes of every block and the packed word.         *)
(*   SpecConc   several threads on one shared pool (either crate), every   *)
(*              lock acquisition a step of its own.                        *)
(*                                                                         *)
(* A pointer is its address, 0 is the null pointer.  The k-th block the    *)
(* system allocator hands out lies at address k * align.  A byte index i   *)
(* of the source is position i + 1 of a sequence here.                     *)
(***************************************************************************)
EXTENDS Integers, Sequences, FiniteSets, TLC

VARIABLES
  variant,  \* "buf": the bufpool crate, "fixed": the bufpool-fixed crate
  align,    \* the pool's alignment, 0 while no pool has been constructed
  heap,     \* heap[k]: the size of the k-th block the system allocator returned
  mem,      \* mem[k]: the bytes of the k-th block
  sizes,    \* sizes[i]: the free list (a VecDeque) of size class i
  bufs,     \* bufs[h]: the buffer handle in slot h, NoBuf / NoFixedBuf when empty
  last,     \* the call that produced this state: its name, handle and argument,
            \* whether it returned (ok) or panicked, whether its block came from a
            \* free list (hit), and the handle as it was before the call (pre)
  lock,     \* lock[i]: the thread holding the mutex of size class i, 0 when free
  pc,       \* pc[t]: where thread t stands
  local     \* local[t]: the local variables of the call thread t is in

vars == <<variant, align, heap, mem, sizes, bufs, last, lock, pc, local>>

(***************************************************************************)
(* Bounds of the model.                                                    *)
(***************************************************************************)
\* The bytes the system allocator can hand out in all; past it alloc returns null.
HeapSize == 4
\* The largest size a caller asks for.
MaxReq == 3
\* The handle slots of the one-thread specifications.
MaxBufs == 2
\* The longest slice passed to extend_from_slice.
MaxSlice == 2
\* The threads sharing the pool.
NThreads == 2
\* The heap and the largest request of the several-thread specification.
ConcHeapSize == 3
ConcMaxReq == 2

\* The values of a byte.
Bytes == {0, 1}

(***************************************************************************)
(* Program constants.                                                      *)
(***************************************************************************)
\* size_of::<usize>() * 8: the number of size classes of a BufPool.
UsizeBits == 64
\* size_of::<usize>(): the alignment BufPool::new() passes.
UsizeBytes == 8

Slots == 0..(UsizeBits - 1)
Handles == 1..MaxBufs

(***************************************************************************)
(* usize helpers of the standard library, as the pool uses them.           *)
(***************************************************************************)
RECURSIVE DoubleUntil(_, _)
DoubleUntil(p, n) == IF p >= n THEN p ELSE DoubleUntil(2 * p, n)

\* A next_power_of_two that does not round.
next_power_of_two_none(n) == IF n = 0 THEN 1 ELSE n

\* usize::next_power_of_two: the smallest power of two >= n; 0 gives 1.
next_power_of_two(n) == DoubleUntil(1, n)

RECURSIVE ilog2(_)
\* usize::ilog2 of a positive number: the position of its highest set bit.
ilog2(n) == IF n <= 1 THEN 0 ELSE 1 + ilog2(n \div 2)

\* An is_power_of_two that accepts every number.
is_power_of_two_any(n) == TRUE

RECURSIVE OnlyTwos(_)
OnlyTwos(n) == IF n = 1 THEN TRUE ELSE IF n % 2 = 1 THEN FALSE ELSE OnlyTwos(n \div 2)

\* usize::is_power_of_two: false for 0.
is_power_of_two(n) == n > 0 /\ OnlyTwos(n)

RECURSIVE SumSeq(_)
SumSeq(s) == IF s = <<>> THEN 0 ELSE Head(s) + SumSeq(Tail(s))

\* All sequences over S of length 0..n.
SeqsUpTo(S, n) == UNION {[1..k -> S] : k \in 0..n}

\* A pop_front that reads the front and leaves it in the queue.
pop_front_peek(q) ==
  IF q = <<>>
  THEN [some |-> FALSE, val |-> 0, rest |-> q]
  ELSE [some |-> TRUE, val |-> Head(q), rest |-> q]

\* VecDeque::pop_front: [some, val, rest].
pop_front(q) ==
  IF q = <<>>
  THEN [some |-> FALSE, val |-> 0, rest |-> q]
  ELSE [some |-> TRUE, val |-> Head(q), rest |-> Tail(q)]

\* A push that puts the element at the front.
push_front(q, x) == <<x>> \o q

\* VecDeque::push_back.
push_back(q, x) == Append(q, x)

(***************************************************************************)
(* The system allocator.                                                   *)
(***************************************************************************)
HeapUsed == SumSeq(heap)

\* The block a pointer of the pool lies in.
BlockOf(ptr) == ptr \div align

\* std::alloc::alloc through BufPool::system_allocate_raw: a fresh block of cap
\* bytes at a multiple of align whose bytes are uninitialised (any bytes), or
\* null (0) when the heap is exhausted.
system_allocate_raw(cap) ==
  IF HeapUsed + cap > HeapSize
  THEN {[data |-> 0, heap |-> heap, mem |-> mem]}
  ELSE {[data |-> (Len(heap) + 1) * align,
         heap |-> Append(heap, cap),
         mem |-> Append(mem, c)] : c \in [1..cap -> Bytes]}

(***************************************************************************)
(* Buf of the bufpool crate: (data, len, cap); the pool reference is the   *)
(* one pool of the model.                                                  *)
(***************************************************************************)
NoBuf == [data |-> 0, len |-> 0, cap |-> 0]

\* BufPool::allocate(cap): the outcomes [ok, buf, sizes, heap, mem]; ok is FALSE
\* when assert!(!data.is_null()) fails.
allocate(n) ==
  LET cap == next_power_of_two(n)
      e == ilog2(cap)
      existing == pop_front(sizes[e])
  IN IF existing.some
     THEN {[ok |-> TRUE,
            buf |-> [data |-> existing.val, len |-> 0, cap |-> cap],
            sizes |-> [sizes EXCEPT ![e] = existing.rest],
            heap |-> heap, mem |-> mem]}
     ELSE {IF r.data = 0
           THEN [ok |-> FALSE, buf |-> NoBuf, sizes |-> sizes,
                 heap |-> heap, mem |-> mem]
           ELSE [ok |-> TRUE,
                 buf |-> [data |-> r.data, len |-> 0, cap |-> cap],
                 sizes |-> sizes, heap |-> r.heap, mem |-> r.mem]
           : r \in system_allocate_raw(cap)}

\* Buf::as_slice: the first len bytes of the block m.
as_slice(b, m) == SubSeq(m, 1, b.len)

\* A set_len without its assertion.
set_len_unchecked(b, len) == [ok |-> TRUE, buf |-> [b EXCEPT !.len = len]]

\* Buf::set_len(len): [ok, buf]; assert!(len <= self.cap).
set_len(b, len) ==
  IF len <= b.cap
  THEN [ok |-> TRUE, buf |-> [b EXCEPT !.len = len]]
  ELSE [ok |-> FALSE, buf |-> b]

\* A fill that writes nothing.
fill_skipped(b, m, val) == m

\* <[u8]>::fill through DerefMut: every byte of as_mut_slice becomes val.
fill(b, m, val) == [i \in 1..Len(m) |-> IF i <= b.len THEN val ELSE m[i]]

\* An extend_from_slice that grows len before the slice index panics.
extend_from_slice_len_first(b, m, other) ==
  LET idx == b.len
      grown == [b EXCEPT !.len = @ + Len(other)]
  IN IF idx + Len(other) > b.cap
     THEN [ok |-> FALSE, buf |-> grown, blk |-> m]
     ELSE [ok |-> TRUE,
           buf |-> grown,
           blk |-> [i \in 1..Len(m) |->
                      IF idx < i /\ i <= idx + Len(other) THEN other[i - idx] ELSE m[i]]]

\* Buf::extend_from_slice(other): [ok, buf, blk]; the slice index
\* [idx..idx + other.len()] of the full slice panics when it passes cap.
extend_from_slice(b, m, other) ==
  LET idx == b.len
  IN IF idx + Len(other) > b.cap
     THEN [ok |-> FALSE, buf |-> b, blk |-> m]
     ELSE [ok |-> TRUE,
           buf |-> [b EXCEPT !.len = @ + Len(other)],
           blk |-> [i \in 1..Len(m) |->
                      IF idx < i /\ i <= idx + Len(other) THEN other[i - idx] ELSE m[i]]]

\* Buf::push(v).
push(b, m, v) == extend_from_slice(b, m, <<v>>)

\* Buf::extend_from_within(s..e): [ok, buf, blk]; copy_within on the full slice
\* panics when the range or the destination passes cap; len is not touched.
extend_from_within(b, m, s, e) ==
  LET idx == b.len
  IN IF s > e \/ e > b.cap \/ idx + (e - s) > b.cap
     THEN [ok |-> FALSE, buf |-> b, blk |-> m]
     ELSE [ok |-> TRUE,
           buf |-> b,
           blk |-> [i \in 1..Len(m) |->
                      IF idx < i /\ i <= idx + (e - s) THEN m[s + (i - idx)] ELSE m[i]]]

\* Buf::pop(): [some, val, buf].
pop(b, m) ==
  IF b.len = 0
  THEN [some |-> FALSE, val |-> 0, buf |-> b]
  ELSE [some |-> TRUE, val |-> m[b.len], buf |-> [b EXCEPT !.len = @ - 1]]

\* A truncate that assigns self.len to itself.
truncate_keeps_len(b, len) == IF len >= b.len THEN b ELSE [b EXCEPT !.len = b.len]

\* Buf::truncate(len).
truncate(b, len) == IF len >= b.len THEN b ELSE [b EXCEPT !.len = len]

\* A clear that keeps the length.
clear_skipped(b) == b

\* Buf::clear().
clear(b) == [b EXCEPT !.len = 0]

\* A drop that lets go of the block without filing it.
drop_forgets(b) == sizes

\* A drop that files the block under the next size class.
drop_wrong_class(b) == [sizes EXCEPT ![ilog2(b.cap) + 1] = push_back(@, b.data)]

\* impl Drop for Buf: the free lists after the block went back to its class.
drop(b) == [sizes EXCEPT ![ilog2(b.cap)] = push_back(@, b.data)]

(***************************************************************************)
(* Spec: one thread using Buf handles of one BufPool.                      *)
(***************************************************************************)
Live(h) == bufs[h] # NoBuf

\* The slot a new handle goes to.
NewHandle == CHOOSE h \in Handles : ~Live(h) /\ \A g \in Handles : g < h => Live(g)

Blk(h) == mem[BlockOf(bufs[h].data)]

Did(op, h, n, ok) ==
  [op |-> op, h |-> h, n |-> n, ok |-> ok, hit |-> FALSE, pre |-> bufs[h]]

SeqFrame == UNCHANGED <<variant, align, lock, pc, local>>

\* A new handle r.buf after the allocation outcome r, its block holding blk.
Install(op, n, r, b, blk) ==
  LET h == NewHandle
  IN /\ bufs' = [bufs EXCEPT ![h] = b]
     /\ sizes' = r.sizes
     /\ heap' = r.heap
     /\ mem' = [r.mem EXCEPT ![r.buf.data \div align] = blk]
     /\ last' = [Did(op, h, n, TRUE) EXCEPT !.hit = (r.heap = heap)]

\* An allocation that died on the null check.
AllocFailed(op, n) ==
  /\ last' = [op |-> op, h |-> 0, n |-> n, ok |-> FALSE, hit |-> FALSE, pre |-> NoBuf]
  /\ UNCHANGED <<bufs, sizes, heap, mem>>

Allocate(n) ==
  /\ \E h \in Handles : ~Live(h)
  /\ \E r \in allocate(n) :
       IF r.ok
       THEN Install("allocate", n, r, r.buf, r.mem[r.buf.data \div align])
       ELSE AllocFailed("allocate", n)
  /\ SeqFrame

\* BufPool::allocate_uninitialised(len): allocate, then set_len(len).
allocate_uninitialised(r, len) == set_len(r.buf, len).buf

AllocateUninitialised(n) ==
  /\ \E h \in Handles : ~Live(h)
  /\ \E r \in allocate(n) :
       IF r.ok
       THEN Install("allocate_uninitialised", n, r, allocate_uninitialised(r, n),
                    r.mem[r.buf.data \div align])
       ELSE AllocFailed("allocate_uninitialised", n)
  /\ SeqFrame

\* BufPool::allocate_with_fill(val, len): allocate_uninitialised, then fill(val):
\* [buf, blk].
allocate_with_fill(r, val, len) ==
  LET b == allocate_uninitialised(r, len)
  IN [buf |-> b, blk |-> fill(b, r.mem[r.buf.data \div align], val)]

AllocateWithFill(val, n) ==
  /\ val # 0
  /\ \E h \in Handles : ~Live(h)
  /\ \E r \in allocate(n) :
       IF r.ok
       THEN LET f == allocate_with_fill(r, val, n)
            IN Install("allocate_with_fill", n, r, f.buf, f.blk)
       ELSE AllocFailed("allocate_with_fill", n)
  /\ SeqFrame

\* BufPool::allocate_with_zeros(len).
allocate_with_zeros(r, len) == allocate_with_fill(r, 0, len)

AllocateWithZeros(n) ==
  /\ \E h \in Handles : ~Live(h)
  /\ \E r \in allocate(n) :
       IF r.ok
       THEN LET f == allocate_with_zeros(r, n)
            IN Install("allocate_with_zeros", n, r, f.buf, f.blk)
       ELSE AllocFailed("allocate_with_zeros", n)
  /\ SeqFrame

\* A method of handle h that leaves it as b with its block holding blk.
Method(op, h, n, ok, b, blk) ==
  /\ bufs' = [bufs EXCEPT ![h] = b]
  /\ mem' = [mem EXCEPT ![BlockOf(bufs[h].data)] = blk]
  /\ last' = Did(op, h, n, ok)
  /\ UNCHANGED <<sizes, heap>>
  /\ SeqFrame

Push(h, v) ==
  /\ Live(h)
  /\ LET r == push(bufs[h], Blk(h), v)
     IN Method("push", h, 1, r.ok, r.buf, r.blk)

ExtendFromSlice(h, other) ==
  /\ Live(h)
  /\ LET r == extend_from_slice(bufs[h], Blk(h), other)
     IN Method("extend_from_slice", h, Len(other), r.ok, r.buf, r.blk)

ExtendFromWithin(h, s, e) ==
  /\ Live(h)
  /\ LET r == extend_from_within(bufs[h], Blk(h), s, e)
     IN Method("extend_from_within", h, e - s, r.ok, r.buf, r.blk)

Pop(h) ==
  /\ Live(h)
  /\ LET r == pop(bufs[h], Blk(h))
     IN Method("pop", h, r.val, r.some, r.buf, Blk(h))

SetLen(h, n) ==
  /\ Live(h)
  /\ LET r == set_len(bufs[h], n)
     IN Method("set_len", h, n, r.ok, r.buf, Blk(h))

Truncate(h, n) ==
  /\ Live(h)
  /\ Method("truncate", h, n, TRUE, truncate(bufs[h], n), Blk(h))

Clear(h) ==
  /\ Live(h)
  /\ Method("clear", h, 0, TRUE, clear(bufs[h]), Blk(h))

\* Buf::append(other): extend_from_slice(other.as_slice()), then other.clear().
Append2(h, g) ==
  /\ Live(h) /\ Live(g) /\ h # g
  /\ LET r == extend_from_slice(bufs[h], Blk(h), as_slice(bufs[g], Blk(g)))
     IN /\ bufs' = [bufs EXCEPT ![h] = r.buf,
                                ![g] = IF r.ok THEN clear(bufs[g]) ELSE bufs[g]]
        /\ mem' = [mem EXCEPT ![BlockOf(bufs[h].data)] = r.blk]
        /\ last' = Did("append", h, g, r.ok)
  /\ UNCHANGED <<sizes, heap>>
  /\ SeqFrame

\* impl Clone for Buf: pool.allocate(self.len()), then extend_from_slice(self).
Clone(h) ==
  /\ Live(h)
  /\ \E g \in Handles : ~Live(g)
  /\ \E r \in allocate(bufs[h].len) :
       IF r.ok
       THEN LET c == extend_from_slice(r.buf, r.mem[r.buf.data \div align],
                                       as_slice(bufs[h], Blk(h)))
            IN Install("clone", h, r, c.buf, c.blk)
       ELSE AllocFailed("clone", h)
  /\ SeqFrame

Drop(h) ==
  /\ Live(h)
  /\ sizes' = drop(bufs[h])
  /\ bufs' = [bufs EXCEPT ![h] = NoBuf]
  /\ last' = Did("drop", h, 0, TRUE)
  /\ UNCHANGED <<heap, mem>>
  /\ SeqFrame

\* The state after BufPool::new(): with_alignment(size_of::<usize>()), every
\* size class empty.
Init ==
  /\ variant = "buf"
  /\ align = UsizeBytes
  /\ heap = <<>>
  /\ mem = <<>>
  /\ sizes = [i \in Slots |-> <<>>]
  /\ bufs = [h \in Handles |-> NoBuf]
  /\ last = [op |-> "new", h |-> 0, n |-> 0, ok |-> TRUE, hit |-> FALSE, pre |-> NoBuf]
  /\ lock = [i \in Slots |-> 0]
  /\ pc = <<>>
  /\ local = <<>>

Next ==
  \/ \E n \in 0..MaxReq : Allocate(n)
  \/ \E n \in 0..MaxReq : AllocateUninitialised(n)
  \/ \E n \in 0..MaxReq, v \in Bytes : AllocateWithFill(v, n)
  \/ \E n \in 0..MaxReq : AllocateWithZeros(n)
  \/ \E h \in Handles, v \in Bytes : Push(h, v)
  \/ \E h \in Handles, o \in SeqsUpTo(Bytes, MaxSlice) : ExtendFromSlice(h, o)
  \/ \E h \in Handles, s \in 0..MaxSlice, e \in 0..(MaxReq + 1) : ExtendFromWithin(h, s, e)
  \/ \E h \in Handles : Pop(h)
  \/ \E h \in Handles, n \in 0..(MaxReq + 1) : SetLen(h, n)
  \/ \E h \in Handles, n \in 0..MaxReq : Truncate(h, n)
  \/ \E h \in Handles : Clear(h)
  \/ \E h, g \in Handles : Append2(h, g)
  \/ \E h \in Handles : Clone(h)
  \/ \E h \in Handles : Drop(h)

Spec == Init /\ [][Next]_vars

(***************************************************************************)
(* Bit operations on usize.                                                *)
(***************************************************************************)
RECURSIVE BitAnd(_, _)
\* x & y
BitAnd(x, y) ==
  IF x = 0 \/ y = 0 THEN 0
  ELSE (x % 2) * (y % 2) + 2 * BitAnd(x \div 2, y \div 2)

RECURSIVE BitOr(_, _)
\* x | y
BitOr(x, y) ==
  IF x = 0 THEN y
  ELSE IF y = 0 THEN x
  ELSE (IF x % 2 = 1 \/ y % 2 = 1 THEN 1 ELSE 0) + 2 * BitOr(x \div 2, y \div 2)

RECURSIVE BitAndNot(_, _)
\* x & !y
BitAndNot(x, y) ==
  IF x = 0 THEN 0
  ELSE (x % 2) * (1 - (y % 2)) + 2 * BitAndNot(x \div 2, y \div 2)

(***************************************************************************)
(* FixedBufPool and FixedBuf of the bufpool-fixed crate: a handle is the   *)
(* one word ptr_and_cap.                                                   *)
(***************************************************************************)
NoFixedBuf == [ptr_and_cap |-> 0]

\* FixedBufPool::with_alignment(align): the alignment of the pool built, 0 when
\* an assertion fails.
with_alignment(a) == IF a > 64 /\ is_power_of_two(a) THEN a ELSE 0

\* FixedBufPool::new().
new == with_alignment(IF 64 >= UsizeBytes THEN 64 ELSE UsizeBytes)

\* A ptr that does not mask the low bits.
ptr_unmasked(b) == b.ptr_and_cap

\* FixedBuf::ptr.
ptr(b) == BitAndNot(b.ptr_and_cap, align - 1)

\* FixedBuf::capacity.
capacity(b) == 2 ^ BitAnd(b.ptr_and_cap, align - 1)

\* std::alloc::alloc_zeroed: a fresh block of cap zero bytes at a multiple of
\* align, or null (0) when the heap is exhausted.
alloc_zeroed(cap) ==
  IF HeapUsed + cap > HeapSize
  THEN [ptr |-> 0, heap |-> heap, mem |-> mem]
  ELSE [ptr |-> (Len(heap) + 1) * align,
        heap |-> Append(heap, cap),
        mem |-> Append(mem, [i \in 1..cap |-> 0])]

\* FixedBufPool::allocate_with_zeros(cap): [ok, buf, sizes, heap, mem]; ok is
\* FALSE when one of its assertions fails.
fixed_allocate_with_zeros(n) ==
  LET failed == [ok |-> FALSE, buf |-> NoFixedBuf, sizes |-> sizes,
                 heap |-> heap, mem |-> mem]
  IN IF ~is_power_of_two(n) THEN failed
     ELSE LET cap == next_power_of_two(n)
              e == ilog2(cap)
              existing == pop_front(sizes[e])
          IN IF existing.some
             THEN [ok |-> TRUE,
                   buf |-> [ptr_and_cap |-> existing.val],
                   sizes |-> [sizes EXCEPT ![e] = existing.rest],
                   heap |-> heap, mem |-> mem]
             ELSE LET r == alloc_zeroed(cap)
                  IN IF r.ptr = 0 \/ BitAnd(r.ptr, align - 1) # 0 THEN failed
                     ELSE [ok |-> TRUE,
                           buf |-> [ptr_and_cap |-> BitOr(r.ptr, e)],
                           sizes |-> sizes, heap |-> r.heap, mem |-> r.mem]

\* A copy_from_slice that copies nothing.
copy_from_slice_skipped(m, data) == [ok |-> TRUE, blk |-> m]

\* <[u8]>::copy_from_slice through DerefMut: panics unless the lengths agree.
copy_from_slice(m, data) ==
  IF Len(m) = Len(data) THEN [ok |-> TRUE, blk |-> data] ELSE [ok |-> FALSE, blk |-> m]

\* A drop of a FixedBuf that files the word under the next size class.
fixed_drop_wrong_class(b) ==
  [sizes EXCEPT ![ilog2(capacity(b)) + 1] = push_back(@, b.ptr_and_cap)]

\* impl Drop for FixedBuf: the free lists after the word went back to its class.
fixed_drop(b) == [sizes EXCEPT ![ilog2(capacity(b))] = push_back(@, b.ptr_and_cap)]

(***************************************************************************)
(* SpecFixed: one thread building a FixedBufPool and using its FixedBufs.  *)
(***************************************************************************)
\* The alignments a caller passes to with_alignment.
AlignInputs == {64, 96, 128, 256}

FLive(h) == bufs[h] # NoFixedBuf

FNewHandle == CHOOSE h \in Handles : ~FLive(h) /\ \A g \in Handles : g < h => FLive(g)

\* The bytes of handle h: as_slice, capacity() bytes from ptr().
FBlk(h) == SubSeq(mem[BlockOf(ptr(bufs[h]))], 1, capacity(bufs[h]))

FDid(op, h, n, ok) ==
  [op |-> op, h |-> h, n |-> n, ok |-> ok, hit |-> FALSE, pre |-> NoBuf]

FixedFrame == UNCHANGED <<variant, lock, pc, local>>

FWithAlignment(a) ==
  /\ align = 0
  /\ align' = with_alignment(a)
  /\ last' = FDid("with_alignment", 0, a, with_alignment(a) # 0)
  /\ UNCHANGED <<heap, mem, sizes, bufs>>
  /\ FixedFrame

FNew ==
  /\ align = 0
  /\ align' = new
  /\ last' = FDid("new", 0, 0, new # 0)
  /\ UNCHANGED <<heap, mem, sizes, bufs>>
  /\ FixedFrame

FInstall(op, n, r, blk) ==
  LET h == FNewHandle
  IN /\ bufs' = [bufs EXCEPT ![h] = r.buf]
     /\ sizes' = r.sizes
     /\ heap' = r.heap
     /\ mem' = [r.mem EXCEPT ![BitAndNot(r.buf.ptr_and_cap, align - 1) \div align] = blk]
     /\ last' = [FDid(op, h, n, TRUE) EXCEPT !.hit = (r.heap = heap)]

FFailed(op, n) ==
  /\ last' = FDid(op, 0, n, FALSE)
  /\ UNCHANGED <<heap, mem, sizes, bufs>>

FAllocateWithZeros(n) ==
  /\ align # 0
  /\ \E h \in Handles : ~FLive(h)
  /\ LET r == fixed_allocate_with_zeros(n)
     IN IF r.ok
        THEN FInstall("allocate_with_zeros", n, r,
                      r.mem[BitAndNot(r.buf.ptr_and_cap, align - 1) \div align])
        ELSE FFailed("allocate_with_zeros", n)
  /\ UNCHANGED align
  /\ FixedFrame

\* FixedBufPool::allocate_from_data(data): allocate_with_zeros(data.len()), then
\* copy_from_slice(data).
FAllocateFromData(data) ==
  /\ align # 0
  /\ \E h \in Handles : ~FLive(h)
  /\ LET r == fixed_allocate_with_zeros(Len(data))
     IN IF r.ok
        THEN FInstall("allocate_from_data", Len(data), r,
               copy_from_slice(r.mem[BitAndNot(r.buf.ptr_and_cap, align - 1) \div align],
                               data).blk)
        ELSE FFailed("allocate_from_data", Len(data))
  /\ UNCHANGED align
  /\ FixedFrame

\* impl Clone for FixedBuf: pool.allocate_from_data(self).
FClone(h) ==
  /\ align # 0
  /\ FLive(h)
  /\ \E g \in Handles : ~FLive(g)
  /\ LET r == fixed_allocate_with_zeros(Len(FBlk(h)))
     IN IF r.ok
        THEN FInstall("clone", h, r,
               copy_from_slice(r.mem[BitAndNot(r.buf.ptr_and_cap, align - 1) \div align],
                               FBlk(h)).blk)
        ELSE FFailed("clone", h)
  /\ UNCHANGED align
  /\ FixedFrame

\* IndexMut through as_mut_slice: buf[i] = v; panics when i is past capacity().
FWrite(h, i, v) ==
  /\ align # 0
  /\ FLive(h)
  /\ IF i < capacity(bufs[h])
     THEN /\ mem' = [mem EXCEPT ![BlockOf(ptr(bufs[h]))][i + 1] = v]
          /\ last' = FDid("write", h, i, TRUE)
     ELSE /\ mem' = mem
          /\ last' = FDid("write", h, i, FALSE)
  /\ UNCHANGED <<align, heap, sizes, bufs>>
  /\ FixedFrame

FDrop(h) ==
  /\ align # 0
  /\ FLive(h)
  /\ sizes' = fixed_drop(bufs[h])
  /\ bufs' = [bufs EXCEPT ![h] = NoFixedBuf]
  /\ last' = FDid("drop", h, 0, TRUE)
  /\ UNCHANGED <<align, heap, mem>>
  /\ FixedFrame

\* No FixedBufPool has been built yet.
InitFixed ==
  /\ variant = "fixed"
  /\ align = 0
  /\ heap = <<>>
  /\ mem = <<>>
  /\ sizes = [i \in Slots |-> <<>>]
  /\ bufs = [h \in Handles |-> NoFixedBuf]
  /\ last = [op |-> "init", h |-> 0, n |-> 0, ok |-> TRUE, hit |-> FALSE, pre |-> NoBuf]
  /\ lock = [i \in Slots |-> 0]
  /\ pc = <<>>
  /\ local = <<>>

NextFixed ==
  \/ \E a \in AlignInputs : FWithAlignment(a)
  \/ FNew
  \/ \E n \in 0..(MaxReq + 1) : FAllocateWithZeros(n)
  \/ \E d \in SeqsUpTo(Bytes, MaxSlice) : FAllocateFromData(d)
  \/ \E h \in Handles : FClone(h)
  \/ \E h \in Handles, i \in 0..MaxReq, v \in Bytes : FWrite(h, i, v)
  \/ \E h \in Handles : FDrop(h)

SpecFixed == InitFixed /\ [][NextFixed]_vars

(***************************************************************************)
(* SpecConc: NThreads threads on one shared pool.  A thread is idle or     *)
(* inside one call of allocate / allocate_uninitialised / clone / drop     *)
(* (variant "buf") or allocate_with_zeros / clone / drop (variant          *)
(* "fixed").  Taking a size class's mutex, what is done under it, the call *)
(* of the system allocator and the release of the mutex are steps of their *)
(* own.  The bytes of the blocks are not followed here.                    *)
(*                                                                         *)
(*   pc[t]      "idle"                                                     *)
(*              "lock"      about to take the mutex of the class, to pop   *)
(*              "pop"       holds the mutex, about to pop_front            *)
(*              "sysalloc"  missed, about to call the system allocator     *)
(*              "unlock"    has its block, about to release the mutex      *)
(*              "drop_lock" about to take the mutex of the class, to push  *)
(*              "drop_push" holds the mutex, about to push_back            *)
(***************************************************************************)
Threads == 1..NThreads

NoLocal == [op |-> "none", n |-> 0, cap |-> 0, data |-> 0, h |-> 0]

\* The empty handle of the pool's crate.
NoHandle == IF variant = "buf" THEN NoBuf ELSE NoFixedBuf

CLive(t, h) == bufs[t][h] # NoHandle

\* The capacity a handle of either crate reports.
CapOf(b) == IF variant = "buf" THEN b.cap ELSE capacity(b)

\* The block a handle of either crate points into.
BlockOfHandle(b) == IF variant = "buf" THEN BlockOf(b.data) ELSE BlockOf(ptr(b))

\* The block a free-list entry of either crate stands for.
BlockOfEntry(x) == IF variant = "buf" THEN BlockOf(x) ELSE BlockOf(BitAndNot(x, align - 1))

CFreeSlot(t) == CHOOSE h \in Handles : ~CLive(t, h) /\ \A g \in Handles : g < h => CLive(t, g)

ConcFrame == UNCHANGED <<variant, align, mem, last>>

\* The call enters: cap is rounded and the size class chosen.
\* BufPool::allocate(cap) / FixedBufPool::allocate_with_zeros(cap), whose
\* assert!(cap.is_power_of_two()) ends the call at once.
Enter(t, op, n) ==
  /\ pc[t] = "idle"
  /\ \E h \in Handles : ~CLive(t, h)
  /\ variant = "fixed" => is_power_of_two(n)
  /\ local' = [local EXCEPT ![t] = [op |-> op, n |-> n, cap |-> next_power_of_two(n),
                                    data |-> 0, h |-> CFreeSlot(t)]]
  /\ pc' = [pc EXCEPT ![t] = "lock"]
  /\ UNCHANGED <<heap, sizes, bufs, lock>>
  /\ ConcFrame

CAllocate(t, n) ==
  /\ n \in 0..ConcMaxReq
  /\ Enter(t, "allocate", n)

CAllocateUninitialised(t, n) ==
  /\ variant = "buf"
  /\ n \in 0..ConcMaxReq
  /\ Enter(t, "allocate_uninitialised", n)

\* impl Clone: Buf allocates self.len(), FixedBuf allocates self.len() = capacity().
CClone(t, h) ==
  /\ CLive(t, h)
  /\ Enter(t, "clone", IF variant = "buf" THEN bufs[t][h].len ELSE capacity(bufs[t][h]))

\* .lock(): waits until the mutex of the size class is free, then holds it.
CLock(t) ==
  /\ pc[t] = "lock"
  /\ lock[ilog2(local[t].cap)] = 0
  /\ lock' = [lock EXCEPT ![ilog2(local[t].cap)] = t]
  /\ pc' = [pc EXCEPT ![t] = "pop"]
  /\ UNCHANGED <<heap, sizes, bufs, local>>
  /\ ConcFrame

\* The handle the call returns for the block (or word) data.
Returned(t, data) ==
  LET l == local[t]
  IN IF variant = "fixed" THEN [ptr_and_cap |-> data]
     ELSE LET b == [data |-> data, len |-> 0, cap |-> l.cap]
          IN IF l.op = "allocate_uninitialised" THEN set_len(b, l.n).buf
             ELSE IF l.op = "clone" THEN [b EXCEPT !.len = @ + l.n]
             ELSE b

\* The call returns its handle into the slot chosen for it.
Return(t, data) ==
  /\ bufs' = [bufs EXCEPT ![t][local[t].h] = Returned(t, data)]
  /\ local' = [local EXCEPT ![t] = NoLocal]
  /\ pc' = [pc EXCEPT ![t] = "idle"]

\* .pop_front() under the mutex.  FixedBufPool: the guard is a temporary of the
\* let statement, so the mutex is released with the pop; a hit returns at once.
\* BufPool: the guard is a temporary of the if-let scrutinee and lives to the end
\* of the if-let, over both branches.
CPop(t) ==
  /\ pc[t] = "pop"
  /\ LET e == ilog2(local[t].cap)
         existing == pop_front(sizes[e])
     IN /\ sizes' = [sizes EXCEPT ![e] = existing.rest]
        /\ IF variant = "fixed"
           THEN /\ lock' = [lock EXCEPT ![e] = 0]
                /\ IF existing.some
                   THEN Return(t, existing.val)
                   ELSE /\ pc' = [pc EXCEPT ![t] = "sysalloc"]
                        /\ UNCHANGED <<bufs, local>>
           ELSE /\ lock' = lock
                /\ local' = [local EXCEPT ![t].data = existing.val]
                /\ pc' = [pc EXCEPT ![t] = IF existing.some THEN "unlock" ELSE "sysalloc"]
                /\ bufs' = bufs
  /\ UNCHANGED heap
  /\ ConcFrame

\* The system allocator: a fresh block at the next multiple of align, or null when
\* the heap is exhausted, on which assert!(!ptr.is_null()) ends the call (the
\* unwinding releases a mutex the call still holds).
CSysAlloc(t) ==
  /\ pc[t] = "sysalloc"
  /\ LET cap == local[t].cap
         e == ilog2(cap)
         fresh == (Len(heap) + 1) * align
     IN IF HeapUsed + cap > ConcHeapSize
        THEN /\ lock' = [lock EXCEPT ![e] = IF @ = t THEN 0 ELSE @]
             /\ local' = [local EXCEPT ![t] = NoLocal]
             /\ pc' = [pc EXCEPT ![t] = "idle"]
             /\ UNCHANGED <<heap, bufs>>
        ELSE /\ heap' = Append(heap, cap)
             /\ IF variant = "fixed"
                THEN /\ Return(t, BitOr(fresh, e))
                     /\ lock' = lock
                ELSE /\ local' = [local EXCEPT ![t].data = fresh]
                     /\ pc' = [pc EXCEPT ![t] = "unlock"]
                     /\ UNCHANGED <<bufs, lock>>
  /\ UNCHANGED sizes
  /\ ConcFrame

\* A return from allocate that leaves the mutex of the class locked.
CUnlockForgotten(t) ==
  /\ pc[t] = "unlock"
  /\ Return(t, local[t].data)
  /\ UNCHANGED <<heap, sizes, lock>>
  /\ ConcFrame

\* BufPool::allocate: the if-let ends, the guard is dropped, the Buf is returned.
CUnlock(t) ==
  /\ pc[t] = "unlock"
  /\ lock' = [lock EXCEPT ![ilog2(local[t].cap)] = 0]
  /\ Return(t, local[t].data)
  /\ UNCHANGED <<heap, sizes>>
  /\ ConcFrame

\* impl Drop: the handle goes out of scope.
CDrop(t, h) ==
  /\ pc[t] = "idle"
  /\ CLive(t, h)
  /\ local' = [local EXCEPT ![t] = [op |-> "drop", n |-> 0, cap |-> CapOf(bufs[t][h]),
                                    data |-> 0, h |-> h]]
  /\ pc' = [pc EXCEPT ![t] = "drop_lock"]
  /\ UNCHANGED <<heap, sizes, bufs, lock>>
  /\ ConcFrame

CDropLock(t) ==
  /\ pc[t] = "drop_lock"
  /\ lock[ilog2(local[t].cap)] = 0
  /\ lock' = [lock EXCEPT ![ilog2(local[t].cap)] = t]
  /\ pc' = [pc EXCEPT ![t] = "drop_push"]
  /\ UNCHANGED <<heap, sizes, bufs, local>>
  /\ ConcFrame

\* .push_back(self.data) / .push_back(self.ptr_and_cap); the guard is dropped at
\* the end of the statement and the handle is gone.
CDropPush(t) ==
  /\ pc[t] = "drop_push"
  /\ LET h == local[t].h
     IN /\ sizes' = IF variant = "buf" THEN drop(bufs[t][h]) ELSE fixed_drop(bufs[t][h])
        /\ bufs' = [bufs EXCEPT ![t][h] = NoHandle]
  /\ lock' = [lock EXCEPT ![ilog2(local[t].cap)] = 0]
  /\ local' = [local EXCEPT ![t] = NoLocal]
  /\ pc' = [pc EXCEPT ![t] = "idle"]
  /\ UNCHANGED heap
  /\ ConcFrame

\* A pool of either crate has been built (BufPool::new(), or
\* FixedBufPool::with_alignment(128)) and shared with every thread.
InitConc ==
  /\ variant \in {"buf", "fixed"}
  /\ align = IF variant = "buf" THEN UsizeBytes ELSE with_alignment(128)
  /\ heap = <<>>
  /\ mem = <<>>
  /\ sizes = [i \in Slots |-> <<>>]
  /\ bufs = [t \in Threads |-> [h \in Handles |->
               IF variant = "buf" THEN NoBuf ELSE NoFixedBuf]]
  /\ last = [op |-> "init", h |-> 0, n |-> 0, ok |-> TRUE, hit |-> FALSE, pre |-> NoBuf]
  /\ lock = [i \in Slots |-> 0]
  /\ pc = [t \in Threads |-> "idle"]
  /\ local = [t \in Threads |-> NoLocal]

NextConc ==
  \E t \in Threads :
    \/ \E n \in 0..ConcMaxReq : CAllocate(t, n)
    \/ \E n \in 0..ConcMaxReq : CAllocateUninitialised(t, n)
    \/ \E h \in Handles : CClone(t, h)
    \/ CLock(t)
    \/ CPop(t)
    \/ CSysAlloc(t)
    \/ CUnlock(t)
    \/ \E h \in Handles : CDrop(t, h)
    \/ CDropLock(t)
    \/ CDropPush(t)

SpecConc == InitConc /\ [][NextConc]_vars

\* The steps of a call that wait for nothing: the scheduler runs the thread.
Proceed(t) == CPop(t) \/ CSysAlloc(t) \/ CUnlock(t) \/ CDropPush(t)

\* The steps that take a mutex: parking_lot hands a mutex that keeps being
\* released to each waiter in the end.
Acquire(t) == CLock(t) \/ CDropLock(t)

SpecConcFair ==
  /\ SpecConc
  /\ \A t \in Threads : WF_vars(Proceed(t)) /\ SF_vars(Acquire(t))

(***************************************************************************)
(* SpecBoth: one caller on a pool of either crate, the growable one as in  *)
(* Spec, the fixed one as in SpecFixed.                                    *)
(***************************************************************************)
InitBoth == Init \/ InitFixed

NextBoth ==
  \/ variant = "buf" /\ Next
  \/ variant = "fixed" /\ NextFixed

SpecBoth == InitBoth /\ [][NextBoth]_vars

(***************************************************************************)
(* SpecNoPool: the bufpool crate built with feature "no-pool".  The pool   *)
(* has no sizes field: allocate goes to the system allocator and drop      *)
(* deallocates.  Beside it, local holds the run of the same requests on a  *)
(* build with the free lists: its handles, its free lists, the number of   *)
(* blocks it took from the system allocator, and whether its last          *)
(* allocation was served from a free list.                                 *)
(***************************************************************************)
MaxBlocks == 2

\* s with x at position k, which is in s or right behind it.
Put(s, k, x) == IF k > Len(s) THEN Append(s, x) ELSE [s EXCEPT ![k] = x]

\* std::alloc::alloc when blocks have been deallocated: the block may lie at an
\* address that was freed or at a new one; null (0) when the heap is exhausted.
system_allocate_raw_no_pool(cap) ==
  LET spots == {k \in 1..Len(heap) : heap[k] = 0}
                 \cup (IF Len(heap) < MaxBlocks THEN {Len(heap) + 1} ELSE {})
  IN IF HeapUsed + cap > HeapSize
     THEN {[data |-> 0, heap |-> heap, mem |-> mem]}
     ELSE {[data |-> kc[1] * align,
            heap |-> Put(heap, kc[1], cap),
            mem |-> Put(mem, kc[1], kc[2])] : kc \in spots \X [1..cap -> Bytes]}

\* BufPool::allocate(cap) under feature "no-pool": [ok, buf, heap, mem].
allocate_no_pool(n) ==
  LET cap == next_power_of_two(n)
  IN {IF r.data = 0
      THEN [ok |-> FALSE, buf |-> NoBuf, heap |-> heap, mem |-> mem]
      ELSE [ok |-> TRUE, buf |-> [data |-> r.data, len |-> 0, cap |-> cap],
            heap |-> r.heap, mem |-> r.mem]
      : r \in system_allocate_raw_no_pool(cap)}

\* A drop under "no-pool" that still files the block in its free list.
drop_pooling(b) == [sizes |-> drop(b), heap |-> heap, mem |-> mem]

\* impl Drop for Buf under feature "no-pool": std::alloc::dealloc(data, layout);
\* [sizes, heap, mem].
drop_no_pool(b) ==
  [sizes |-> sizes,
   heap |-> [heap EXCEPT ![BlockOf(b.data)] = 0],
   mem |-> [mem EXCEPT ![BlockOf(b.data)] = <<>>]]

\* BufPool::allocate(cap) of the build with free lists, on the run tw held in
\* local: the free list of the class is popped, a miss takes a new block.
allocate_pooling(tw, h, n, len) ==
  LET cap == next_power_of_two(n)
      e == ilog2(cap)
      existing == pop_front(tw.sizes[e])
      data == IF existing.some THEN existing.val ELSE (tw.blocks + 1) * align
  IN [bufs |-> [tw.bufs EXCEPT ![h] = [data |-> data, len |-> len, cap |-> cap]],
      sizes |-> [tw.sizes EXCEPT ![e] = existing.rest],
      blocks |-> IF existing.some THEN tw.blocks ELSE tw.blocks + 1,
      hit |-> existing.some]

\* impl Drop for Buf of the build with free lists, on the run tw.
drop_pooling_run(tw, h) ==
  [bufs |-> [tw.bufs EXCEPT ![h] = NoBuf],
   sizes |-> [tw.sizes EXCEPT ![ilog2(tw.bufs[h].cap)] = push_back(@, tw.bufs[h].data)],
   blocks |-> tw.blocks,
   hit |-> FALSE]

NoPoolFrame == UNCHANGED <<variant, align, lock, pc>>

\* allocate (len 0) or allocate_uninitialised (set_len(n)) of both builds.
NPAllocate(op, n) ==
  /\ \E h \in Handles : ~Live(h)
  /\ \E r \in allocate_no_pool(n) :
       IF r.ok
       THEN LET h == NewHandle
                b == IF op = "allocate_uninitialised" THEN set_len(r.buf, n).buf
                     ELSE r.buf
            IN /\ bufs' = [bufs EXCEPT ![h] = b]
               /\ heap' = r.heap
               /\ mem' = r.mem
               /\ last' = Did(op, h, n, TRUE)
               /\ local' = allocate_pooling(local, h, n, b.len)
               /\ UNCHANGED sizes
       ELSE /\ AllocFailed(op, n)
            /\ UNCHANGED local
  /\ NoPoolFrame

NPDrop(h) ==
  /\ Live(h)
  /\ LET r == drop_no_pool(bufs[h])
     IN /\ sizes' = r.sizes
        /\ heap' = r.heap
        /\ mem' = r.mem
  /\ bufs' = [bufs EXCEPT ![h] = NoBuf]
  /\ last' = Did("drop", h, 0, TRUE)
  /\ local' = drop_pooling_run(local, h)
  /\ NoPoolFrame

InitNoPool ==
  /\ variant = "no-pool"
  /\ align = UsizeBytes
  /\ heap = <<>>
  /\ mem = <<>>
  /\ sizes = [i \in Slots |-> <<>>]
  /\ bufs = [h \in Handles |-> NoBuf]
  /\ last = [op |-> "new", h |-> 0, n |-> 0, ok |-> TRUE, hit |-> FALSE, pre |-> NoBuf]
  /\ lock = [i \in Slots |-> 0]
  /\ pc = <<>>
  /\ local = [bufs |-> [h \in Handles |-> NoBuf], sizes |-> [i \in Slots |-> <<>>],
              blocks |-> 0, hit |-> FALSE]

NextNoPool ==
  \/ \E n \in 0..MaxReq : NPAllocate("allocate", n)
  \/ \E n \in 0..MaxReq : NPAllocate("allocate_uninitialised", n)
  \/ \E h \in Handles : NPDrop(h)

SpecNoPool == InitNoPool /\ [][NextNoPool]_vars

(***************************************************************************)
(* SpecPack: the packing of a block address and a capacity exponent into   *)
(* the one word of a FixedBuf, over the alignments a pool can be built     *)
(* with, block addresses at multiples of the alignment and every exponent  *)
(* a usize capacity can have.  local holds the pair packed and the handle. *)
(***************************************************************************)
MaxAddr == 3

\* FixedBufPool::allocate_with_zeros, the miss path: raw | cap.ilog2().
Pack(address, e) ==
  /\ BitAnd(address, align - 1) = 0
  /\ local' = [op |-> "pack", address |-> address, e |-> e,
               buf |-> [ptr_and_cap |-> BitOr(address, e)]]
  /\ UNCHANGED <<variant, align, heap, mem, sizes, bufs, last, lock, pc>>

InitPack ==
  /\ variant = "fixed"
  /\ align \in {with_alignment(a) : a \in AlignInputs} \ {0}
  /\ heap = <<>>
  /\ mem = <<>>
  /\ sizes = [i \in Slots |-> <<>>]
  /\ bufs = [h \in Handles |-> NoFixedBuf]
  /\ last = [op |-> "init", h |-> 0, n |-> 0, ok |-> TRUE, hit |-> FALSE, pre |-> NoBuf]
  /\ lock = [i \in Slots |-> 0]
  /\ pc = <<>>
  /\ local = [op |-> "none", address |-> 0, e |-> 0, buf |-> NoFixedBuf]

NextPack ==
  \E k \in 1..MaxAddr, e \in 0..(UsizeBits - 1) : Pack(k * align, e)

SpecPack == InitPack /\ [][NextPack]_vars

(***************************************************************************)
(* SpecRoot: the Buf of the root crate (src/src), one caller.  Its blocks  *)
(* come from vec![0u8; cap], so a block is named by its number (align 1).  *)
(***************************************************************************)
\* BufPool::allocate(cap) of the root crate: [ok, buf, sizes, heap, mem]; a miss
\* takes the zeroed storage of vec![0u8; cap], which aborts when memory is
\* exhausted.
root_allocate(n) ==
  LET cap == next_power_of_two(n)
      e == ilog2(cap)
      existing == pop_front(sizes[e])
  IN IF existing.some
     THEN [ok |-> TRUE,
           buf |-> [data |-> existing.val, len |-> 0, cap |-> cap],
           sizes |-> [sizes EXCEPT ![e] = existing.rest],
           heap |-> heap, mem |-> mem]
     ELSE IF HeapUsed + cap > HeapSize
     THEN [ok |-> FALSE, buf |-> NoBuf, sizes |-> sizes, heap |-> heap, mem |-> mem]
     ELSE [ok |-> TRUE,
           buf |-> [data |-> (Len(heap) + 1) * align, len |-> 0, cap |-> cap],
           sizes |-> sizes,
           heap |-> Append(heap, cap),
           mem |-> Append(mem, [i \in 1..cap |-> 0])]

\* Buf::truncate(len) of the root crate: past the early return the length is
\* assigned to itself.
root_truncate(b, len) == IF len >= b.len THEN b ELSE [b EXCEPT !.len = b.len]

\* BufPool::allocate_with_fill(val, len) of the root crate: allocate,
\* set_len(len), fill(val).
RAllocateWithFill(val, n) ==
  /\ \E h \in Handles : ~Live(h)
  /\ LET r == root_allocate(n)
     IN IF r.ok
        THEN LET b == set_len(r.buf, n).buf
             IN Install("allocate_with_fill", n, r, b,
                        fill(b, r.mem[r.buf.data \div align], val))
        ELSE AllocFailed("allocate_with_fill", n)
  /\ SeqFrame

RPush(h, v) ==
  /\ Live(h)
  /\ LET r == push(bufs[h], Blk(h), v)
     IN Method("push", h, 1, r.ok, r.buf, r.blk)

RPop(h) ==
  /\ Live(h)
  /\ LET r == pop(bufs[h], Blk(h))
     IN Method("pop", h, r.val, r.some, r.buf, Blk(h))

RTruncate(h, n) ==
  /\ Live(h)
  /\ Method("truncate", h, n, TRUE, root_truncate(bufs[h], n), Blk(h))

RClear(h) ==
  /\ Live(h)
  /\ Method("clear", h, 0, TRUE, clear(bufs[h]), Blk(h))

\* The state after BufPool::new() of the root crate.
InitRoot ==
  /\ variant = "root"
  /\ align = 1
  /\ heap = <<>>
  /\ mem = <<>>
  /\ sizes = [i \in Slots |-> <<>>]
  /\ bufs = [h \in Handles |-> NoBuf]
  /\ last = [op |-> "new", h |-> 0, n |-> 0, ok |-> TRUE, hit |-> FALSE, pre |-> NoBuf]
  /\ lock = [i \in Slots |-> 0]
  /\ pc = <<>>
  /\ local = <<>>

NextRoot ==
  \/ \E n \in 0..MaxReq, v \in Bytes : RAllocateWithFill(v, n)
  \/ \E h \in Handles, v \in Bytes : RPush(h, v)
  \/ \E h \in Handles : RPop(h)
  \/ \E h \in Handles, n \in 0..MaxReq : RTruncate(h, n)
  \/ \E h \in Handles : RClear(h)

SpecRoot == InitRoot /\ [][NextRoot]_vars

(***************************************************************************)
(* The claims.                                                             *)
(***************************************************************************)
\* c is a power of two: positive, with no odd divisor but 1.
PowerOfTwo(c) == c >= 1 /\ \A d \in 2..c : c % d = 0 => d % 2 = 0

\* c is the least power of two that is >= n and >= 1.
RoundsTo(n, c) ==
  /\ PowerOfTwo(c)
  /\ c >= n
  /\ c = 1 \/ c \div 2 < n

Range(q) == {q[i] : i \in 1..Len(q)}

\* How many handles of the threads point into block k.
HandleCount(k) ==
  Cardinality({th \in Threads \X Handles :
                 CLive(th[1], th[2]) /\ BlockOfHandle(bufs[th[1]][th[2]]) = k})

\* How many calls hold block k between their pop (or the system allocator) and
\* the return of its handle.
TransitCount(k) ==
  Cardinality({t \in Threads : pc[t] = "unlock" /\ BlockOf(local[t].data) = k})

\* How many free-list entries stand for block k.
QueuedCount(k) ==
  Cardinality({ij \in Slots \X (1..Len(heap)) :
                 ij[2] <= Len(sizes[ij[1]]) /\ BlockOfEntry(sizes[ij[1]][ij[2]]) = k})

\* C1: under every interleaving of allocate, clone and drop by the threads of
\* SpecConc, every block the system allocator handed out is owned by exactly one
\* handle (a live one, or the one a call that already has the block is about to
\* return) or stands exactly once in exactly one free list: never both, never
\* twice; and no free list is longer than the number of blocks.
C1_ExclusiveOwnership ==
  /\ \A k \in 1..Len(heap) : HandleCount(k) + TransitCount(k) + QueuedCount(k) = 1
  /\ \A i \in Slots : Len(sizes[i]) <= Len(heap)

\* C1's case: a thread holds the mutex of a class and is about to pop a recycled
\* block of it while another thread waits for the same mutex to push its block.
C1_Witness ==
  \E t, u \in Threads :
    /\ t # u
    /\ pc[t] = "pop" /\ pc[u] = "drop_lock"
    /\ local[t].cap = local[u].cap
    /\ sizes[ilog2(local[t].cap)] # <<>>
    /\ \E h \in Handles : CLive(u, h)

\* C2 as claimed: every byte of the buffer FixedBufPool::allocate_with_zeros
\* returns is zero.
C2_ZeroFilled ==
  (last.op = "allocate_with_zeros" /\ last.ok)
    => \A i \in 1..Len(FBlk(last.h)) : FBlk(last.h)[i] = 0

\* C3: BufPool::allocate_with_zeros(n) returns a buffer of length n whose n
\* logical bytes are zero, whatever the block held before.
C3_ZeroFilled ==
  (last.op = "allocate_with_zeros" /\ last.ok)
    => /\ bufs[last.h].len = last.n
       /\ Len(as_slice(bufs[last.h], Blk(last.h))) = last.n
       /\ \A i \in 1..last.n : Blk(last.h)[i] = 0

\* C3's case: allocate_with_zeros(3) got a recycled block of capacity 4 whose
\* fourth byte, outside the buffer, is still non-zero.
C3_Witness ==
  /\ last.op = "allocate_with_zeros" /\ last.ok /\ last.hit
  /\ last.n = 3
  /\ Blk(last.h)[4] = 1

\* C4: BufPool::allocate(n) returns a buffer of length 0 whose capacity is the
\* least power of two >= max(1, n), for a recycled block and for a fresh one.
C4_CapacityRounding ==
  (last.op = "allocate" /\ last.ok)
    => /\ RoundsTo(last.n, bufs[last.h].cap)
       /\ bufs[last.h].len = 0

\* C4's case: allocate(3) returned a fresh block of capacity 4 from the system
\* allocator.
C4_Witness ==
  /\ last.op = "allocate" /\ last.ok /\ ~last.hit
  /\ last.n = 3
  /\ bufs[last.h].cap = 4

\* C5 as claimed: FixedBufPool::allocate_with_zeros(0) succeeds with a buffer of
\* capacity 1.
C5_ZeroRequest ==
  (last.op = "allocate_with_zeros" /\ last.n = 0)
    => (last.ok /\ capacity(bufs[last.h]) = 1)

\* C6 as claimed: an allocate right after the release of a buffer of capacity c
\* returns the released block when its size rounds to c, and another block when
\* it does not.
C6_ReleasedBlockReturned ==
  [][(last.op = "drop" /\ last'.op = "allocate" /\ last'.ok)
       => IF RoundsTo(last'.n, last.pre.cap)
          THEN bufs'[last'.h].data = last.pre.data /\ bufs'[last'.h].len = 0
          ELSE bufs'[last'.h].data # last.pre.data]_vars

\* C6 amended: the same, for a release into an empty free list: when the free
\* list the released block went to holds nothing else, an allocate right after
\* the release whose size rounds to c returns that block with length 0 and
\* capacity c; an allocate whose size rounds to another capacity returns another
\* block.
C6_RecycledWhenAlone ==
  [][(last.op = "drop" /\ last'.op = "allocate" /\ last'.ok)
       => IF RoundsTo(last'.n, last.pre.cap)
          THEN (\A i \in Slots : last.pre.data \in Range(sizes[i]) => Len(sizes[i]) = 1)
                 => /\ bufs'[last'.h].data = last.pre.data
                    /\ bufs'[last'.h].len = 0
                    /\ bufs'[last'.h].cap = last.pre.cap
          ELSE bufs'[last'.h].data # last.pre.data]_vars

\* C6's case: allocate(3) was served from the free list with a block of
\* capacity 4 that still holds a non-zero first byte, and has length 0.
C6_Witness ==
  /\ last.op = "allocate" /\ last.ok /\ last.hit
  /\ last.n = 3
  /\ bufs[last.h].cap = 4 /\ bufs[last.h].len = 0
  /\ Blk(last.h)[1] = 1

\* C7: across every step, every live Buf has len <= cap and a power of two as
\* cap, and a handle that lives on keeps its cap.
C7_LenWithinCap ==
  [][\A h \in Handles :
       Live(h)' =>
         /\ bufs'[h].len <= bufs'[h].cap
         /\ PowerOfTwo(bufs'[h].cap)
         /\ Live(h) => bufs'[h].cap = bufs[h].cap]_vars

\* C7's case: set_len raised the length of a buffer of capacity 4 to 4.
C7_Witness ==
  /\ last.op = "set_len" /\ last.ok
  /\ last.pre.len < 4
  /\ bufs[last.h].len = 4 /\ bufs[last.h].cap = 4

\* C8: push and extend_from_slice panic exactly when the write would pass cap,
\* and then leave the handle, every byte and the pool as they were; otherwise
\* they return with the length grown by the bytes written.
C8_OverflowLeavesBuf ==
  [][(last'.op \in {"push", "extend_from_slice"})
       => LET h == last'.h
          IN IF bufs[h].len + last'.n > bufs[h].cap
             THEN /\ ~last'.ok
                  /\ bufs' = bufs /\ mem' = mem /\ sizes' = sizes /\ heap' = heap
             ELSE /\ last'.ok
                  /\ bufs'[h].len = bufs[h].len + last'.n]_vars

\* C8's case: the fifth push on a full buffer of capacity 4 panicked.
C8_Witness ==
  /\ last.op = "push" /\ ~last.ok
  /\ bufs[last.h].len = 4 /\ bufs[last.h].cap = 4

\* C9 as claimed: BufPool::allocate_uninitialised(n) returns a buffer whose
\* length equals its capacity.
C9_LenIsCap ==
  (last.op = "allocate_uninitialised" /\ last.ok)
    => bufs[last.h].len = bufs[last.h].cap

\* C10: truncate(n) of the bufpool crate sets the length to n when n < len and
\* changes nothing otherwise; the capacity, the block, its bytes, the other
\* handles and the pool stay; and a push on a buffer with len < cap returns, on
\* the same block.
C10_TruncateShrinks ==
  [][/\ (last'.op = "truncate")
          => /\ bufs' = [bufs EXCEPT ![last'.h].len =
                           IF last'.n < @ THEN last'.n ELSE @]
             /\ mem' = mem /\ sizes' = sizes /\ heap' = heap
     /\ (last'.op = "push" /\ bufs[last'.h].len < bufs[last'.h].cap)
          => /\ last'.ok
             /\ bufs'[last'.h].data = bufs[last'.h].data
             /\ bufs'[last'.h].cap = bufs[last'.h].cap]_vars

\* C10's case: truncate(2) cut a full buffer of capacity 4 down to length 2.
C10_Witness ==
  /\ last.op = "truncate" /\ last.n = 2
  /\ last.pre.len = 4 /\ last.pre.cap = 4
  /\ bufs[last.h].len = 2

\* The bytes a handle of either crate shows: as_slice().
HBytes(h) == IF variant = "buf" THEN as_slice(bufs[h], Blk(h)) ELSE FBlk(h)

HLive(h) == bufs[h] # NoHandle

\* The operations that write through one handle, named in last.h.
WriteOps ==
  {"push", "extend_from_slice", "extend_from_within", "pop", "set_len",
   "truncate", "clear", "write"}

\* C11: for Buf and FixedBuf alike, a clone that returns has a block other than
\* its source's, shows the bytes the source showed (hence the same length, for
\* FixedBuf the same capacity) and leaves the source as it was; no two live
\* handles ever share a block; and an operation through one handle leaves every
\* other live handle and the bytes it shows unchanged.
C11_CloneDoesNotAlias ==
  [][/\ (last'.op = "clone" /\ last'.ok)
          => \E c, src \in Handles :
               /\ c = last'.h /\ src = last'.n /\ c # src
               /\ HLive(c)' /\ HLive(src)'
               /\ BlockOfHandle(bufs'[c]) # BlockOfHandle(bufs'[src])
               /\ HBytes(c)' = HBytes(src)
               /\ HBytes(src)' = HBytes(src)
               /\ bufs'[src] = bufs[src]
     /\ \A h, g \in Handles :
          (h # g /\ HLive(h)' /\ HLive(g)')
            => BlockOfHandle(bufs'[h]) # BlockOfHandle(bufs'[g])
     /\ (last'.op \in WriteOps)
          => \A g \in Handles :
               (g # last'.h /\ HLive(g))
                 => (bufs'[g] = bufs[g] /\ HBytes(g)' = HBytes(g))]_vars

\* C11's case: a byte of a clone was overwritten with a value the source does
\* not hold there (FixedBuf), the source still live.
C11_Witness ==
  /\ variant = "fixed"
  /\ last.op = "write" /\ last.ok
  /\ \E g \in Handles :
       /\ g # last.h /\ HLive(g) /\ HLive(last.h)
       /\ capacity(bufs[g]) = 2 /\ capacity(bufs[last.h]) = 2
       /\ FBlk(g) = <<1, 1>>
       /\ FBlk(last.h) # FBlk(g)

\* C12 as claimed: in both pools no thread is about to call, or inside, the
\* system allocator while it holds the mutex of a size class.
C12_NoLockAcrossAlloc ==
  \A t \in Threads : pc[t] = "sysalloc" => \A i \in Slots : lock[i] # t

\* C13: Buf::append(other) that fits returns with self showing its old bytes
\* followed by other's old logical bytes and with other at length 0 on its own
\* block; one that would pass self's capacity panics and changes neither self
\* nor other nor any byte.  The pool is untouched either way.
C13_AppendMovesBytes ==
  [][(last'.op = "append")
       => \E h, g \in Handles :
            /\ h = last'.h /\ g = last'.n /\ h # g
            /\ sizes' = sizes /\ heap' = heap
            /\ IF bufs[h].len + bufs[g].len > bufs[h].cap
               THEN ~last'.ok /\ bufs' = bufs /\ mem' = mem
               ELSE /\ last'.ok
                    /\ as_slice(bufs[h], Blk(h))' =
                         as_slice(bufs[h], Blk(h)) \o as_slice(bufs[g], Blk(g))
                    /\ bufs'[h] = [bufs[h] EXCEPT !.len = @ + bufs[g].len]
                    /\ bufs'[g] = [bufs[g] EXCEPT !.len = 0]]_vars

\* C13's case: an append moved the one byte of other behind the one byte of
\* self, a buffer of capacity 2.
C13_Witness ==
  /\ last.op = "append" /\ last.ok
  /\ last.pre.len = 1 /\ last.pre.cap = 2
  /\ bufs[last.h].len = 2
  /\ Blk(last.h) = <<1, 0>>
  /\ Live(last.n) /\ bufs[last.n].len = 0 /\ Blk(last.n)[1] = 0

\* C14: FixedBufPool::allocate_with_zeros(cap) with cap > 0 that is no power of
\* two panics before it touches anything: no free list is popped, nothing comes
\* from the system allocator, no handle appears and no byte changes.
C14_InvalidRequestFails ==
  [][(last'.op = "allocate_with_zeros" /\ last'.n > 0 /\ ~PowerOfTwo(last'.n))
       => /\ ~last'.ok
          /\ sizes' = sizes /\ heap' = heap /\ mem' = mem /\ bufs' = bufs]_vars

\* C14's case: allocate_with_zeros(3) failed while the free list of capacity 4,
\* the class 3 would round to, held a block.
C14_Witness ==
  /\ variant = "fixed"
  /\ last.op = "allocate_with_zeros" /\ last.n = 3 /\ ~last.ok
  /\ sizes[2] # <<>>

C16_MinimumAlignment ==
  (last.op = "new" \/ (last.op = "with_alignment" /\ last.n = 64)) => last.ok

\* C17: in every state of the threads of SpecConc, on either crate, every entry
\* of free list i stands for a block that the system allocator handed out with
\* 2^i bytes; in the fixed pool the low bits of every word in free list i are i;
\* and every live handle reports the capacity its block was allocated with, so a
\* handle built from an entry of free list i reports 2^i.
C17_SlotHoldsItsCapacity ==
  /\ \A i \in Slots : \A j \in 1..Len(sizes[i]) :
       /\ BlockOfEntry(sizes[i][j]) \in 1..Len(heap)
       /\ heap[BlockOfEntry(sizes[i][j])] = 2 ^ i
       /\ variant = "fixed" => BitAnd(sizes[i][j], align - 1) = i
  /\ \A t \in Threads, h \in Handles :
       CLive(t, h)
         => /\ BlockOfHandle(bufs[t][h]) \in 1..Len(heap)
            /\ CapOf(bufs[t][h]) = heap[BlockOfHandle(bufs[t][h])]

\* C17's case: the fixed pool holds a released word of capacity 1 and one of
\* capacity 2, each in its own free list.
C17_Witness ==
  /\ variant = "fixed"
  /\ sizes[0] # <<>> /\ sizes[1] # <<>>
  /\ \A t \in Threads : pc[t] = "idle"

\* C18: for an alignment a pool accepts, a block address that is a multiple of
\* it and an exponent e in 0..63, the word address | e gives back e under
\* & (align - 1) and the address under & !(align - 1), through FixedBuf::ptr,
\* and FixedBuf::capacity is 2^e (compared as numbers for e below 31, the range
\* of the checker's integers, and by its exponent above).
C18_PackRoundTrip ==
  (local.op = "pack")
    => /\ BitAnd(local.buf.ptr_and_cap, align - 1) = local.e
       /\ BitAndNot(local.buf.ptr_and_cap, align - 1) = local.address
       /\ ptr(local.buf) = local.address
       /\ local.e < 31 => capacity(local.buf) = 2 ^ local.e

\* C18's case: the highest exponent, 63, packed with the second block address of
\* a pool of alignment 128.
C18_Witness ==
  /\ local.op = "pack"
  /\ align = 128 /\ local.address = 256 /\ local.e = 63
  /\ local.buf.ptr_and_cap = 319

\* C19: each free list is a FIFO queue.  A step changes a free list only by a
\* drop, which puts the released block behind everything released to the list
\* before, or by an allocation that returns, which takes the block at the
\* front, the one released longest ago; so of two blocks in a list the one
\* released first is handed out first.
C19_FifoRecycling ==
  [][\A i \in Slots :
       \/ sizes'[i] = sizes[i]
       \/ /\ last'.op = "drop"
          /\ i = ilog2(last'.pre.cap)
          /\ sizes'[i] = sizes[i] \o <<last'.pre.data>>
       \/ /\ last'.op \notin {"drop"} /\ last'.ok /\ last'.hit
          /\ sizes[i] # <<>>
          /\ bufs'[last'.h].data = sizes[i][1]
          /\ sizes'[i] = SubSeq(sizes[i], 2, Len(sizes[i]))]_vars

\* C19's case: the block at address 16 was released before the block at address
\* 8, and the next allocation of the class got the block at 16, with the block
\* at 8 still queued.
C19_Witness ==
  /\ variant = "buf"
  /\ last.op = "allocate" /\ last.ok /\ last.hit
  /\ bufs[last.h].data = 16
  /\ sizes[0] = <<8>>

\* The mutexes thread t holds.
Held(t) == {i \in Slots : lock[i] = t}

\* C20: under fair scheduling every allocate, clone and drop a thread has
\* started returns; and in every state a thread holds at most one size-class
\* mutex, and none while it waits for one.
C20_EveryCallCompletes ==
  /\ \A t \in Threads : (pc[t] # "idle") ~> (pc[t] = "idle")
  /\ [](\A t \in Threads :
          /\ Cardinality(Held(t)) <= 1
          /\ pc[t] \in {"idle", "lock", "drop_lock"} => Held(t) = {})

\* C20's case: a thread waits for the mutex of a size class that another thread
\* holds while that one is in the system allocator.
C20_Witness ==
  \E t, u \in Threads :
    /\ t # u
    /\ pc[t] \in {"lock", "drop_lock"} /\ pc[u] = "sysalloc"
    /\ local[t].cap = local[u].cap
    /\ lock[ilog2(local[u].cap)] = u

\* The blocks live handles own, and the blocks the free lists hold.
InFlight == {BlockOfHandle(bufs[h]) : h \in {g \in Handles : HLive(g)}}

Retained ==
  UNION {{BlockOfEntry(sizes[i][j]) : j \in 1..Len(sizes[i])} : i \in Slots}

\* C21: with the free lists in use, on either crate, the blocks the system
\* allocator ever handed out are, after every step, exactly the blocks owned by
\* live handles together with the blocks in the free lists, the two sets
\* disjoint; no step takes a block away or changes its size, so the number of
\* blocks the process holds never goes down.
C21_NothingIsFreed ==
  /\ [](/\ InFlight \cup Retained = 1..Len(heap)
        /\ InFlight \cap Retained = {}
        /\ Cardinality(InFlight \cup Retained) = Len(heap))
  /\ [][/\ Len(heap') >= Len(heap)
        /\ \A k \in 1..Len(heap) : heap'[k] = heap[k]]_vars

\* C21's case: the last handle was dropped and all three blocks ever allocated
\* sit in the free lists of the growable pool.
C21_Witness ==
  /\ variant = "buf"
  /\ last.op = "drop"
  /\ Len(heap) = 3
  /\ InFlight = {}
  /\ Retained = {1, 2, 3}

\* C22 as claimed: extend_from_within(s..e) with the range inside the logical
\* bytes and len + (e - s) <= cap appends the bytes of the range: afterwards the
\* length has grown by e - s and the new trailing logical bytes are the bytes
\* the range held.
C22_ExtendFromWithinGrows ==
  [][\A h \in Handles, s \in 0..MaxSlice, e \in 0..(MaxReq + 1) :
       (/\ ExtendFromWithin(h, s, e)
        /\ s <= e /\ e <= bufs[h].len
        /\ bufs[h].len + (e - s) <= bufs[h].cap)
         => /\ bufs'[h].len = bufs[h].len + (e - s)
            /\ as_slice(bufs[h], Blk(h))' =
                 as_slice(bufs[h], Blk(h)) \o SubSeq(Blk(h), s + 1, e)]_vars

\* C23 as claimed: truncate(n) of the root crate's Buf leaves the length at n
\* when n was below it, and as it was otherwise.
C23_RootTruncateShrinks ==
  (variant = "root" /\ last.op = "truncate")
    => bufs[last.h].len = (IF last.n < last.pre.len THEN last.n ELSE last.pre.len)

====
